---------------------------- MODULE Spec2Model ----------------------------
(***************************************************************************)
(* A model of barrage's parser-combinator engine (src/src/parsers.rs) and  *)
(* of parse_duration (src/src/main.rs).                                    *)
(*                                                                         *)
(* A &str is a sequence of characters; a character is a one-character      *)
(* string, except the two non-ASCII characters "U0663" (ARABIC-INDIC DIGIT *)
(* THREE) and "U00BD" (VULGAR FRACTION ONE HALF), each two bytes long in   *)
(* UTF-8 and each accepted by char::is_numeric.  Offsets into a &str are   *)
(* byte offsets, as in Rust.                                               *)
(*                                                                         *)
(* A u64 is held as a decimal numeral: the sequence of its digits, most    *)
(* significant first, without leading zeros (zero is the empty sequence),  *)
(* because 2^64 is beyond the integers of the model checker.               *)
(***************************************************************************)
EXTENDS Integers, Sequences, FiniteSets, TLC

VARIABLES
    text,       \* the &str handed to the call
    parser,     \* the composed parser the call is made on
    pc,         \* "ready" | "loop" | "exit" | "done"
    called,     \* "none" | "parse" | "parse_duration" | "repeat"
    result,     \* the outcome of the call
    pos,        \* ZeroOrMore/OneOrMore/NOrMore::parse: let mut pos
    outputs,    \* ZeroOrMore/OneOrMore/NOrMore::parse: let mut outputs
    consumed,   \* the last value of: let consumed = idk.len() - rest.len()
    iter        \* NOrMore::parse: iterations of `for _ in 0..self.times` begun

vars == <<text, parser, pc, called, result, pos, outputs, consumed, iter>>

----------------------------------------------------------------------------
(* Bounds *)

\* Every string over Alphabet of at most MaxLen characters is an input.
MaxLen == 3

\* The largest `times` given to n_or_more.
MaxTimes == 2

\* No input of the model is longer than MaxBytes bytes.
MaxBytes == 23

----------------------------------------------------------------------------
(* Characters and strings *)

\* F applied to the value of v: `let x = v; F(x)`, with v computed once.
With(v, F(_)) == CHOOSE y \in {F(x) : x \in {v}} : TRUE

AsciiDigits == {"0", "1", "2", "3", "4", "5", "6", "7", "8", "9"}

\* Characters of more than one byte in UTF-8.
TwoByteChars == {"U0663", "U00BD"}

\* char::is_numeric: Unicode general categories Nd, Nl, No.
IsNumeric(c) == c \in AsciiDigits \cup {"U0663", "U00BD"}

\* char::len_utf8
LenUtf8(c) == IF c \in TwoByteChars THEN 2 ELSE 1

RECURSIVE ByteLen(_)
\* str::len: the length in bytes.
ByteLen(s) == IF s = <<>> THEN 0 ELSE LenUtf8(Head(s)) + ByteLen(Tail(s))

\* str::strip_prefix / starts_with
IsPrefix(p, s) == Len(p) <= Len(s) /\ SubSeq(s, 1, Len(p)) = p

IsSuffix(t, s) == Len(t) <= Len(s) /\ SubSeq(s, Len(s) - Len(t) + 1, Len(s)) = t

DropChars(s, n) == SubSeq(s, n + 1, Len(s))

\* The number of characters of s that end at byte offset n, or -1 when n
\* is not a character boundary of s or lies outside s.
CharsUpTo(s, n) ==
    IF \E k \in 0..Len(s) : ByteLen(SubSeq(s, 1, k)) = n
    THEN CHOOSE k \in 0..Len(s) : ByteLen(SubSeq(s, 1, k)) = n
    ELSE -1

----------------------------------------------------------------------------
(* Outcomes of a call *)

Ok(out, rest) == [kind |-> "ok", out |-> out, rest |-> rest]

\* An anyhow::Error: the chain of messages, outermost context first.
Err(chain) == [kind |-> "err", chain |-> chain]

Msg(message, lit) == [msg |-> message, lit |-> lit]

\* A panic unwinds through every caller of the model.
Panic(msg) == [kind |-> "panic", msg |-> msg]

\* The call does not return.
Diverge == [kind |-> "diverge"]

\* anyhow::Context::context on a Result
Context(r, context) ==
    IF r.kind = "err" THEN Err(<<Msg(context, <<>>)>> \o r.chain) ELSE r

\* &s[n..]
SliceFrom(s, n) ==
    With(CharsUpTo(s, n), LAMBDA k :
        IF k < 0 THEN Panic("byte index is out of bounds or not a char boundary")
        ELSE Ok(DropChars(s, k), <<>>))

\* &s[..n]
SliceTo(s, n) ==
    With(CharsUpTo(s, n), LAMBDA k :
        IF k < 0 THEN Panic("byte index is out of bounds or not a char boundary")
        ELSE Ok(SubSeq(s, 1, k), <<>>))

----------------------------------------------------------------------------
(* u64 and std::time::Duration *)

DigitChars == <<"0", "1", "2", "3", "4", "5", "6", "7", "8", "9">>

\* char::to_digit(10) of an ASCII digit
DigitValue(c) == (CHOOSE i \in 1..Len(DigitChars) : DigitChars[i] = c) - 1

\* u64::MAX = 18446744073709551615
U64Max == <<1, 8, 4, 4, 6, 7, 4, 4, 0, 7, 3, 7, 0, 9, 5, 5, 1, 6, 1, 5>>

RECURSIVE LexLess(_, _)
\* a < b for digit sequences of one length
LexLess(a, b) ==
    IF a = <<>> THEN FALSE
    ELSE IF Head(a) # Head(b) THEN Head(a) < Head(b)
    ELSE LexLess(Tail(a), Tail(b))

\* a < b for numerals
NumLess(a, b) == Len(a) < Len(b) \/ (Len(a) = Len(b) /\ LexLess(a, b))

\* The numeral of a digit sequence: its leading zeros dropped.
Numeral(ds) ==
    IF \A i \in 1..Len(ds) : ds[i] = 0 THEN <<>>
    ELSE SubSeq(ds, CHOOSE i \in 1..Len(ds) :
                        ds[i] # 0 /\ \A j \in 1..(i - 1) : ds[j] = 0,
                Len(ds))

\* The value the digit loop of <u64 as FromStr>::from_str holds after the
\* first k characters of s, all ASCII digits: result * 10 + digit, k times.
ValueAfter(s, k) == Numeral([i \in 1..k |-> DigitValue(s[i])])

\* The digit loop stops at the k-th character: it is no ASCII digit, or
\* the checked multiply-and-add leaves u64.
StopsAt(s, k) ==
    \/ \E j \in 1..k : s[j] \notin AsciiDigits
    \/ NumLess(U64Max, ValueAfter(s, k))

\* str::parse::<u64>
ParseU64(s) ==
    IF s = <<>> THEN [ok |-> FALSE, e |-> "Empty"]
    ELSE IF \E k \in 1..Len(s) : StopsAt(s, k)
    THEN With(CHOOSE k \in 1..Len(s) : StopsAt(s, k) /\ \A j \in 1..(k - 1) : ~StopsAt(s, j),
              LAMBDA k : IF s[k] \notin AsciiDigits
                         THEN [ok |-> FALSE, e |-> "InvalidDigit"]
                         ELSE [ok |-> FALSE, e |-> "PosOverflow"])
    ELSE [ok |-> TRUE, v |-> ValueAfter(s, Len(s))]

\* n / 10^k for a numeral n
DivPow10(n, k) == IF Len(n) <= k THEN <<>> ELSE SubSeq(n, 1, Len(n) - k)

RECURSIVE DigitsValue(_, _)
\* The integer a short digit sequence spells, continuing from acc.
DigitsValue(ds, acc) ==
    IF ds = <<>> THEN acc ELSE DigitsValue(Tail(ds), acc * 10 + Head(ds))

\* n % 10^k for a numeral n, k <= 9
ModPow10(n, k) ==
    IF Len(n) <= k THEN DigitsValue(n, 0)
    ELSE DigitsValue(SubSeq(n, Len(n) - k + 1, Len(n)), 0)

\* Duration::from_secs, from_millis, from_micros, from_nanos
DurationFromSecs(n) == [secs |-> n, nanos |-> 0]
DurationFromMillis(n) == [secs |-> DivPow10(n, 3), nanos |-> ModPow10(n, 3) * 1000000]
DurationFromMicros(n) == [secs |-> DivPow10(n, 6), nanos |-> ModPow10(n, 6) * 1000]
DurationFromNanos(n) == [secs |-> DivPow10(n, 9), nanos |-> ModPow10(n, 9)]

----------------------------------------------------------------------------
(* The parsers: one record per struct or closure implementing Parser *)

Node(k, lit, subs, times, f) ==
    [k |-> k, lit |-> lit, subs |-> subs, times |-> times, f |-> f]

literal(expected) == Node("Literal", expected, <<>>, 0, "")
numeric == Node("Numeric", <<>>, <<>>, 0, "")
zero_or_more(p) == Node("ZeroOrMore", <<>>, <<p>>, 0, "")
one_or_more(p) == Node("OneOrMore", <<>>, <<p>>, 0, "")
n_or_more(times, p) == Node("NOrMore", <<>>, <<p>>, times, "")
uint == Node("IntegerParser", <<>>, <<>>, 0, "")
Then(first, then) == Node("Then", <<>>, <<first, then>>, 0, "")
Map(inner, f) == Node("Map", <<>>, <<inner>>, 0, f)
End(inner) == Node("End", <<>>, <<inner>>, 0, "")
end == End(literal(<<>>))

\* one_of!(lit, ...): a closure holding one literal parser per argument.
one_of(lits) == Node("OneOf", <<>>, [i \in 1..Len(lits) |-> literal(lits[i])], 0, "")

Units == <<(<<"s">>), <<"m", "s">>, <<"n", "s">>, <<"u", "s">> >>

\* fn duration()
duration == Map(Then(uint, one_of(Units)), "duration")

RECURSIVE Parse(_, _)

\* <Literal as Parser>::parse, with found and rest exchanged
LiteralParseSwapped(self, input) ==
    IF IsPrefix(self.lit, input)
    THEN Ok(DropChars(input, Len(self.lit)), SubSeq(input, 1, Len(self.lit)))
    ELSE Err(<<Msg("expected literal not found in input", self.lit)>>)

\* <Literal as Parser>::parse
LiteralParse(self, input) ==
    IF IsPrefix(self.lit, input)
    THEN Ok(SubSeq(input, 1, Len(self.lit)), DropChars(input, Len(self.lit)))
    ELSE Err(<<Msg("expected literal not found in input", self.lit)>>)

\* <Numeric as Parser>::parse
NumericParse(self, input) ==
    IF input # <<>> /\ IsNumeric(Head(input))
    THEN Ok(<<Head(input)>>, Tail(input))
    ELSE Err(<<Msg("non-numeric character found", <<>>)>>)

\* <Then as Parser>::parse, handing the whole input to the second parser
ThenParseSameInput(self, input) ==
    With(Context(Parse(self.subs[1], input), "first parser unsuccessful"),
         LAMBDA first :
        IF first.kind # "ok" THEN first
        ELSE With(Context(Parse(self.subs[2], input), "second parser unsuccessful"),
                  LAMBDA second :
                 IF second.kind # "ok" THEN second
                 ELSE Ok(<<first.out, second.out>>, second.rest)))

\* <Then as Parser>::parse
ThenParse(self, input) ==
    With(Context(Parse(self.subs[1], input), "first parser unsuccessful"),
         LAMBDA first :
        IF first.kind # "ok" THEN first
        ELSE With(Context(Parse(self.subs[2], first.rest), "second parser unsuccessful"),
                  LAMBDA second :
                 IF second.kind # "ok" THEN second
                 ELSE Ok(<<first.out, second.out>>, second.rest)))

\* The closure of fn duration(), with the "ms" and "us" arms exchanged
DurationOfSwapped(out) ==
    LET int == out[1]
        unit == out[2]
    IN  CASE unit = <<"s">> -> Ok(DurationFromSecs(int), <<>>)
          [] unit = <<"m", "s">> -> Ok(DurationFromMicros(int), <<>>)
          [] unit = <<"n", "s">> -> Ok(DurationFromNanos(int), <<>>)
          [] unit = <<"u", "s">> -> Ok(DurationFromMillis(int), <<>>)
          [] OTHER -> Panic("internal error: entered unreachable code")

\* The closure of fn duration(): |(int, unit)| match unit { ... }
DurationOf(out) ==
    LET int == out[1]
        unit == out[2]
    IN  CASE unit = <<"s">> -> Ok(DurationFromSecs(int), <<>>)
          [] unit = <<"m", "s">> -> Ok(DurationFromMillis(int), <<>>)
          [] unit = <<"n", "s">> -> Ok(DurationFromNanos(int), <<>>)
          [] unit = <<"u", "s">> -> Ok(DurationFromMicros(int), <<>>)
          [] OTHER -> Panic("internal error: entered unreachable code")

\* <Map as Parser>::parse; self.f is the closure of fn duration()
MapParse(self, input) ==
    With(Parse(self.subs[1], input), LAMBDA r :
        IF r.kind # "ok" THEN r
        ELSE With(DurationOf(r.out), LAMBDA v :
                 IF v.kind # "ok" THEN v ELSE Ok(v.out, r.rest)))

\* <End as Parser>::parse without the test of rest
EndParseUnchecked(self, input) ==
    With(Parse(self.subs[1], input), LAMBDA r :
        IF r.kind # "ok" THEN r ELSE Ok(r.out, input))

\* <End as Parser>::parse
EndParse(self, input) ==
    With(Parse(self.subs[1], input), LAMBDA r :
        IF r.kind # "ok" THEN r
        ELSE IF r.rest = <<>> THEN Ok(r.out, input)
        ELSE Err(<<Msg("not end of input", <<>>)>>))

RECURSIVE OneOfArmsLast(_, _)
\* The arms of one_of!, tried from the last to the first
OneOfArmsLast(arms, input) ==
    IF arms = <<>> THEN Err(<<Msg("none of provided options matched", <<>>)>>)
    ELSE With(Parse(arms[Len(arms)], input), LAMBDA r :
             IF r.kind = "err" THEN OneOfArmsLast(SubSeq(arms, 1, Len(arms) - 1), input)
             ELSE r)

RECURSIVE OneOfArms(_, _)
\* The arms of one_of!, in order: the first Ok returns, an Err falls through.
OneOfArms(arms, input) ==
    IF arms = <<>> THEN Err(<<Msg("none of provided options matched", <<>>)>>)
    ELSE With(Parse(Head(arms), input), LAMBDA r :
             IF r.kind = "err" THEN OneOfArms(Tail(arms), input) ELSE r)

\* The closure one_of! expands to
OneOfParse(self, input) == OneOfArms(self.subs, input)

----------------------------------------------------------------------------
(* The inputs of the model *)

Alphabet == {"0", "7", "s", "m", "U0663"}

ShortInputs == UNION {[1..n -> Alphabet] : n \in 0..MaxLen}

\* decimal(n): the decimal text of a numeral
Decimal(n) == IF n = <<>> THEN <<"0">> ELSE [i \in 1..Len(n) |-> DigitChars[n[i] + 1]]

U64MaxPlusOne == <<1, 8, 4, 4, 6, 7, 4, 4, 0, 7, 3, 7, 0, 9, 5, 5, 1, 6, 1, 6>>

TwentyZeros == [i \in 1..20 |-> "0"]

LongInputs ==
    {
      <<"5", "0", "0", "m", "s">>,
      <<"1", "0", "0", "0", "0", "0", "0", "u", "s">>,
      <<"2", "s">>,
      <<"1", "0", "0", "0", "n", "s">>,
      <<"1", "2", "3", "4", "5", "6", "7", "8", "9", "0", "1", "2", "n", "s">>,
      <<"9", "9", "9", "u", "s">>,
      <<"5", "0", "0">>,
      <<"5", "0", "0", "x">>,
      <<"5", "0", "0", "m", "s", "!">>,
      <<"m", "s", "5", "0", "0">>,
      <<"n", "s">>,
      <<"u", "s">>,
      <<"x">>,
      <<" ", "5", "s">>,
      <<"5", "s", " ">>,
      <<"5", " ", "s">>,
      <<"+", "5", "s">>,
      <<"-", "5", "s">>,
      <<"1", ".", "5", "s">>,
      <<"U00BD", "s">>,
      <<"5", "U00BD", "s">>,
      <<"7", "m", "s", "m", "s">>,
      Decimal(U64Max) \o <<"s">>,
      Decimal(U64Max) \o <<"m", "s">>,
      Decimal(U64Max) \o <<"n", "s">>,
      Decimal(U64Max) \o <<"u", "s">>,
      Decimal(U64Max),
      Decimal(U64MaxPlusOne) \o <<"s">>,
      Decimal(U64MaxPlusOne) \o <<"m", "s">>,
      <<"1">> \o TwentyZeros \o <<"n", "s">>,
      TwentyZeros \o <<"7", "u", "s">>
    }

Inputs == {s \in ShortInputs \cup LongInputs : ByteLen(s) <= MaxBytes}

\* A repetition that consumes at least one byte per accepted application
\* pushes at most MaxBytes outputs.  The parsers are pure functions of
\* their input, so an application that consumed nothing is repeated on the
\* same slice for ever: a `loop` that has pushed MaxOutputs outputs never
\* exits (until the vector's allocation fails).
MaxOutputs == MaxBytes + 1

----------------------------------------------------------------------------
(* Repetition *)

\* One pass through the body of the loop of ZeroOrMore, OneOrMore and
\* NOrMore::parse.  consumed is idk.len() - rest.len() as an integer; with
\* overflow checks the subtraction panics when it is negative and without
\* them it wraps, pos with it.
LoopBody(p, input, ps) ==
    With(SliceFrom(input, ps), LAMBDA idk :
        IF idk.kind # "ok" THEN idk
        ELSE With(Parse(p, idk.out), LAMBDA r :
                 IF r.kind = "ok"
                 THEN [kind |-> "push", found |-> r.out,
                       consumed |-> ByteLen(idk.out) - ByteLen(r.rest)]
                 ELSE IF r.kind = "err" THEN [kind |-> "break"]
                 ELSE r))

\* The state of a loop that is still running.
Running(ps, outs) == [kind |-> "run", pos |-> ps, outputs |-> outs]

\* The state of a loop after one more pass: running, exited through
\* `break`, or unwinding from a panic of the body.
Pass(p, input, st) ==
    With(LoopBody(p, input, st.pos), LAMBDA b :
        CASE b.kind = "push" ->
               Running(st.pos + b.consumed, Append(st.outputs, b.found))
          [] b.kind = "break" -> [st EXCEPT !.kind = "exit"]
          [] OTHER -> b)

RECURSIVE Passes(_, _, _, _)
\* The state of a loop after at most n more passes.
Passes(p, input, st, n) ==
    IF n = 0 \/ st.kind # "run" THEN st
    ELSE IF n = 1 THEN Pass(p, input, st)
    ELSE With(Passes(p, input, st, n \div 2), LAMBDA mid :
             Passes(p, input, mid, n - (n \div 2)))

\* loop { ... } of ZeroOrMore::parse and OneOrMore::parse
Loop(p, input) ==
    With(Passes(p, input, Running(0, <<>>), MaxOutputs), LAMBDA st :
        IF st.kind = "run" THEN Diverge ELSE st)

\* for _ in 0..self.times { ... } of NOrMore::parse
ForLoop(p, input, times) ==
    With(Passes(p, input, Running(0, <<>>), times), LAMBDA st :
        IF st.kind = "run" THEN [st EXCEPT !.kind = "exit"] ELSE st)

\* What ZeroOrMore::parse returns after its loop
ZeroOrMoreReturn(input, ps, outs) ==
    With(SliceFrom(input, ps), LAMBDA rest :
        IF rest.kind # "ok" THEN rest ELSE Ok(outs, rest.out))

\* What OneOrMore::parse and NOrMore::parse return after their loops
OneOrMoreReturn(input, ps, outs) ==
    IF outs = <<>>
    THEN Err(<<Msg("parser did not find any values it could consume", <<>>)>>)
    ELSE With(SliceFrom(input, ps), LAMBDA rest :
             IF rest.kind # "ok" THEN rest ELSE Ok(outs, rest.out))

\* <ZeroOrMore as Parser>::parse
ZeroOrMoreParse(self, input) ==
    With(Loop(self.subs[1], input), LAMBDA l :
        IF l.kind # "exit" THEN l ELSE ZeroOrMoreReturn(input, l.pos, l.outputs))

\* <OneOrMore as Parser>::parse
OneOrMoreParse(self, input) ==
    With(Loop(self.subs[1], input), LAMBDA l :
        IF l.kind # "exit" THEN l ELSE OneOrMoreReturn(input, l.pos, l.outputs))

\* <NOrMore as Parser>::parse
NOrMoreParse(self, input) ==
    With(ForLoop(self.subs[1], input, self.times), LAMBDA l :
        IF l.kind # "exit" THEN l ELSE OneOrMoreReturn(input, l.pos, l.outputs))

\* <IntegerParser as Parser>::parse
IntegerParserParse(self, input) ==
    With(Parse(one_or_more(numeric), input), LAMBDA r :
        IF r.kind # "ok" THEN r
        ELSE With(SliceTo(input, Len(r.out)), LAMBDA matched :
                 IF matched.kind # "ok" THEN matched
                 ELSE With(ParseU64(matched.out), LAMBDA int :
                          IF int.ok THEN Ok(int.v, r.rest)
                          ELSE Panic("output from numeric should parse to int without issue"))))

\* Parser::parse, dispatched on the implementing type
Parse(p, input) ==
    CASE p.k = "Literal" -> LiteralParse(p, input)
      [] p.k = "Numeric" -> NumericParse(p, input)
      [] p.k = "Then" -> ThenParse(p, input)
      [] p.k = "Map" -> MapParse(p, input)
      [] p.k = "End" -> EndParse(p, input)
      [] p.k = "OneOf" -> OneOfParse(p, input)
      [] p.k = "ZeroOrMore" -> ZeroOrMoreParse(p, input)
      [] p.k = "OneOrMore" -> OneOrMoreParse(p, input)
      [] p.k = "NOrMore" -> NOrMoreParse(p, input)
      [] p.k = "IntegerParser" -> IntegerParserParse(p, input)

\* fn parse_duration
parse_duration(s) ==
    With(Parse(End(duration), s), LAMBDA r :
        Context(IF r.kind = "ok" THEN [kind |-> "ok", out |-> r.out] ELSE r,
                "cannot parse to duration value"))

----------------------------------------------------------------------------
(* The state machine: one call of parse or of parse_duration on one text *)

Parsers ==
    {
      literal(<<>>), literal(<<"s">>), literal(<<"m", "s">>), literal(<<"7">>),
      numeric, uint, end,
      End(literal(<<"s">>)), End(numeric), End(uint), End(one_of(Units)),
      End(zero_or_more(numeric)),
      Then(uint, literal(<<"m", "s">>)), Then(literal(<<"s">>), numeric),
      Then(numeric, uint), Then(literal(<<"m">>), uint),
      Then(End(literal(<<"s">>)), literal(<<"s">>)), Then(End(numeric), numeric),
      Then(end, end), Then(zero_or_more(literal(<<"s">>)), uint),
      duration, End(duration),
      one_of(Units), one_of(<<(<<"m">>), <<"m", "s">> >>),
      one_of(<<(<<"m", "s">>), <<"m">> >>), one_of(<<>>),
      one_of(<<(<<>>), <<"s">> >>),
      zero_or_more(numeric), zero_or_more(literal(<<>>)),
      zero_or_more(literal(<<"s">>)), zero_or_more(end),
      zero_or_more(End(literal(<<"s">>))), zero_or_more(one_of(Units)),
      zero_or_more(uint),
      one_or_more(numeric), one_or_more(literal(<<>>)), one_or_more(literal(<<"m">>)),
      one_or_more(Then(numeric, literal(<<"s">>)))
    } \cup { n_or_more(t, numeric) : t \in 0..MaxTimes }
      \cup { n_or_more(t, literal(<<>>)) : t \in 0..MaxTimes }
      \cup { n_or_more(t, one_of(Units)) : t \in 0..MaxTimes }

RepeatKinds == {"ZeroOrMore", "OneOrMore", "NOrMore"}

NoResult == [kind |-> "none"]

Init ==
    /\ text \in Inputs
    /\ parser \in Parsers
    /\ pc = "ready"
    /\ called = "none"
    /\ result = NoResult
    /\ pos = 0
    /\ outputs = <<>>
    /\ consumed = 0
    /\ iter = 0

\* parser.parse(text), as one step
CallParse ==
    /\ pc = "ready"
    /\ result' = Parse(parser, text)
    /\ called' = "parse"
    /\ pc' = "done"
    /\ UNCHANGED <<text, parser, pos, outputs, consumed, iter>>

\* parse_duration(text); the parser it builds is duration().end()
CallParseDuration ==
    /\ pc = "ready"
    /\ parser = End(duration)
    /\ result' = parse_duration(text)
    /\ called' = "parse_duration"
    /\ pc' = "done"
    /\ UNCHANGED <<text, parser, pos, outputs, consumed, iter>>

\* ZeroOrMore, OneOrMore or NOrMore::parse, pass by pass: the entry
RepeatBegin ==
    /\ pc = "ready"
    /\ parser.k \in RepeatKinds
    /\ called' = "repeat"
    /\ pc' = "loop"
    /\ pos' = 0
    /\ outputs' = <<>>
    /\ UNCHANGED <<text, parser, result, consumed, iter>>

\* One pass of the loop: the inner parser is applied to &text[pos..].
RepeatPass ==
    /\ pc = "loop"
    /\ Len(outputs) < MaxOutputs
    /\ IF parser.k = "NOrMore" /\ iter = parser.times
       THEN /\ pc' = "exit"
            /\ UNCHANGED <<result, pos, outputs, consumed, iter>>
       ELSE \E b \in {LoopBody(parser.subs[1], text, pos)} :
                IF b.kind = "push"
                THEN /\ consumed' = b.consumed
                     /\ pos' = pos + b.consumed
                     /\ outputs' = Append(outputs, b.found)
                     /\ iter' = iter + 1
                     /\ UNCHANGED <<pc, result>>
                ELSE IF b.kind = "break"
                THEN /\ pc' = "exit"
                     /\ UNCHANGED <<result, pos, outputs, consumed, iter>>
                ELSE /\ result' = b
                     /\ pc' = "done"
                     /\ UNCHANGED <<pos, outputs, consumed, iter>>
    /\ UNCHANGED <<text, parser, called>>

\* The return after the loop.
RepeatReturn ==
    /\ pc = "exit"
    /\ result' = IF parser.k = "ZeroOrMore"
                 THEN ZeroOrMoreReturn(text, pos, outputs)
                 ELSE OneOrMoreReturn(text, pos, outputs)
    /\ pc' = "done"
    /\ UNCHANGED <<text, parser, called, pos, outputs, consumed, iter>>

Next ==
    \/ CallParse
    \/ CallParseDuration
    \/ RepeatBegin
    \/ RepeatPass
    \/ RepeatReturn

Spec == Init /\ [][Next]_vars

----------------------------------------------------------------------------
(* Properties *)

Returned == pc = "done"

ParseReturned == called = "parse" /\ pc = "done"

DurationReturned == called = "parse_duration" /\ pc = "done"

UnitSet == {Units[i] : i \in 1..Len(Units)}

\* <one-or-more-decimal-digits><unit>, unit one of s, ms, ns, us
IsDurationText(t) ==
    \E k \in 1..(Len(t) - 1) :
        /\ \A i \in 1..k : t[i] \in AsciiDigits
        /\ DropChars(t, k) \in UnitSet

\* C1: parse_duration(text) succeeds if and only if text is one or more
\* decimal digits followed by exactly one of s, ms, ns, us and nothing
\* else; every other input yields an error result.
C1_AcceptsExactlyTheGrammar ==
    DurationReturned =>
        IF IsDurationText(text) THEN result.kind = "ok" ELSE result.kind = "err"

\* The numbers of the model: every numeral that fits, with a unit, in
\* MaxLen characters, the numbers of the documented examples, and u64::MAX.
Numbers ==
    {n \in UNION {[1..k -> 0..9] : k \in 0..(MaxLen - 1)} : n = <<>> \/ n[1] # 0}
    \cup {U64Max, <<1, 0, 0, 0, 0, 0, 0>>, <<1, 0, 0, 0>>,
          <<1, 2, 3, 4, 5, 6, 7, 8, 9, 0, 1, 2>>}

\* Nanoseconds per unit, as a power of ten: s, ms, ns, us.
UnitExponent == <<9, 6, 0, 3>>

\* n * 10^e
TimesPow10(n, e) == IF n = <<>> THEN <<>> ELSE n \o [i \in 1..e |-> 0]

RECURSIVE Pow10(_)
Pow10(e) == IF e = 0 THEN 1 ELSE 10 * Pow10(e - 1)

\* The whole of a Duration in nanoseconds: secs * 10^9 + nanos.
TotalNanos(d) ==
    Numeral(d.secs \o [i \in 1..9 |-> (d.nanos \div Pow10(9 - i)) % 10])

\* C2: for every n in the range of u64 and every unit u, parse_duration of
\* decimal(n) ++ u succeeds with the duration of n times the unit.
C2_ScalesByUnit ==
    DurationReturned =>
        \A n \in Numbers : \A u \in 1..Len(Units) :
            text = Decimal(n) \o Units[u] =>
                /\ result.kind = "ok"
                /\ result.out.nanos \in 0..999999999
                /\ TotalNanos(result.out) = TimesPow10(n, UnitExponent[u])

\* parse_duration("500ms") has returned 500 milliseconds.
C2_Witness ==
    /\ DurationReturned
    /\ text = <<"5", "0", "0", "m", "s">>
    /\ result.kind = "ok"
    /\ result.out = [secs |-> <<>>, nanos |-> 500000000]

\* C3: uint().parse, and with it parse_duration, returns a success or an
\* error for every input and never panics.
C3_UintNeverPanics ==
    (Returned /\ (parser = uint \/ called = "parse_duration")) =>
        result.kind \in {"ok", "err"}

\* C4: end(P) succeeds, with P's output, if and only if P succeeds leaving
\* an empty remainder; it fails with "not end of input" when P leaves a
\* remainder, and returns P's failure unchanged; end() succeeds on the
\* empty string only.
C4_EndOfInput ==
    (ParseReturned /\ parser.k = "End") =>
        \E inner \in {Parse(parser.subs[1], text)} :
            /\ (result.kind = "ok") <=> (inner.kind = "ok" /\ inner.rest = <<>>)
            /\ result.kind = "ok" => result.out = inner.out
            /\ (inner.kind = "ok" /\ inner.rest # <<>>) =>
                   /\ result.kind = "err"
                   /\ result.chain = <<Msg("not end of input", <<>>)>>
            /\ inner.kind = "err" =>
                   (result.kind = "err" /\ result.chain = inner.chain)
            /\ parser = end => ((result.kind = "ok") <=> (text = <<>>))

\* end(numeric()) has refused "70": numeric() left "0".
C4_Witness ==
    /\ ParseReturned
    /\ parser = End(numeric)
    /\ text = <<"7", "0">>
    /\ result.kind = "err"
    /\ result.chain = <<Msg("not end of input", <<>>)>>

\* C5: then(P1, P2) runs P1 on the input and P2 on what P1 left; it
\* succeeds iff both do, with the pair of outputs and P2's remainder; P1's
\* failure is wrapped in "first parser unsuccessful" whatever P2 would do,
\* P2's in "second parser unsuccessful".
C5_ThenSequences ==
    (ParseReturned /\ parser.k = "Then") =>
        \E r1 \in {Parse(parser.subs[1], text)} :
            /\ r1.kind = "err" =>
                   /\ result.kind = "err"
                   /\ result.chain =
                          <<Msg("first parser unsuccessful", <<>>)>> \o r1.chain
            /\ r1.kind = "ok" =>
                   \E r2 \in {Parse(parser.subs[2], r1.rest)} :
                       /\ r2.kind = "ok" =>
                              /\ result.kind = "ok"
                              /\ result.out[1] = r1.out
                              /\ result.out[2] = r2.out
                              /\ result.rest = r2.rest
                       /\ r2.kind = "err" =>
                              /\ result.kind = "err"
                              /\ result.chain =
                                     <<Msg("second parser unsuccessful", <<>>)>>
                                         \o r2.chain
                       /\ result.kind = "ok" => r2.kind = "ok"
            /\ result.kind = "ok" => r1.kind = "ok"

\* literal("m").then(uint()) has failed on U+0663 with the first parser's
\* error, where uint() on the same input would have panicked.
C5_Witness ==
    /\ ParseReturned
    /\ parser = Then(literal(<<"m">>), uint)
    /\ text = <<"U0663">>
    /\ Parse(uint, text).kind = "panic"
    /\ result.kind = "err"
    /\ result.chain[1] = Msg("first parser unsuccessful", <<>>)

\* C6: zero_or_more(P) and one_or_more(P) terminate for every P and every
\* input: every accepted repetition consumes at least one unit of input.
C6_RepetitionTerminates ==
    parser.k \in {"ZeroOrMore", "OneOrMore"} =>
        /\ (called = "repeat" /\ outputs # <<>>) => consumed >= 1
        /\ ParseReturned => result.kind # "diverge"

\* The index of the first candidate that is a prefix of t, 0 when none is.
FirstMatch(cands, t) ==
    IF \E i \in 1..Len(cands) : IsPrefix(cands[i], t)
    THEN CHOOSE i \in 1..Len(cands) :
             IsPrefix(cands[i], t) /\ \A j \in 1..(i - 1) : ~IsPrefix(cands[j], t)
    ELSE 0

\* C7: one_of returns the match of the first candidate, in list order,
\* that is a prefix of the input, and fails with "none of provided options
\* matched" if and only if no candidate is a prefix.
C7_FirstMatchWins ==
    (ParseReturned /\ parser.k = "OneOf") =>
        \E cands \in {[i \in 1..Len(parser.subs) |-> parser.subs[i].lit]} :
        \E m \in {FirstMatch(cands, text)} :
            IF m = 0
            THEN /\ result.kind = "err"
                 /\ result.chain = <<Msg("none of provided options matched", <<>>)>>
            ELSE /\ result.kind = "ok"
                 /\ result.out = cands[m]
                 /\ result.rest = DropChars(text, Len(cands[m]))

\* one_of!("m", "ms") has answered "m" on "ms", where "ms" matches too.
C7_Witness ==
    /\ ParseReturned
    /\ parser = one_of(<<(<<"m">>), <<"m", "s">> >>)
    /\ text = <<"m", "s">>
    /\ result.kind = "ok"
    /\ result.out = <<"m">>
    /\ result.rest = <<"s">>

\* C8: numeric() fails with "unexpected end of input" on the empty input
\* and with "non-numeric character" on a first character that is no digit.
C8_DistinctErrors ==
    (ParseReturned /\ parser = numeric /\ result.kind = "err") =>
        result.chain =
            <<Msg(IF text = <<>> THEN "unexpected end of input"
                  ELSE "non-numeric character found", <<>>)>>

\* C9: a successful parse returns a suffix of its input; in a repetition
\* pos never passes the end of the input and consumed is never negative.
C9_RemainingIsSuffix ==
    /\ (Returned /\ called \in {"parse", "repeat"} /\ result.kind = "ok") =>
           IsSuffix(result.rest, text)
    /\ called = "repeat" => (consumed >= 0 /\ pos >= 0 /\ pos <= ByteLen(text))

\* zero_or_more(numeric()) has run pass by pass over "70s" and left "s".
C9_Witness ==
    /\ called = "repeat"
    /\ pc = "done"
    /\ parser = zero_or_more(numeric)
    /\ text = <<"7", "0", "s">>
    /\ pos = 2
    /\ result.kind = "ok"
    /\ result.rest = <<"s">>

\* C10: when end(P) succeeds the remaining input it returns is empty, so a
\* parser sequenced after end(P) runs on the empty input.
C10_EndLeavesNothing ==
    /\ (ParseReturned /\ parser.k = "End" /\ result.kind = "ok") =>
           result.rest = <<>>
    /\ (ParseReturned /\ parser.k = "Then" /\ parser.subs[1].k = "End"
            /\ Parse(parser.subs[1], text).kind = "ok") =>
           result.kind = Parse(parser.subs[2], <<>>).kind

\* The pass-by-pass run of a repetition returns what Parse computes for it.
StepwiseAgrees ==
    (called = "repeat" /\ pc = "done") =>
        LET r == Parse(parser, text)
        IN  /\ r.kind = result.kind
            /\ r.kind = "ok" => (r.out = result.out /\ r.rest = result.rest)

============================================================================
